---- MODULE Spec2Model ----
(***************************************************************************)
(* mysql-utilities 1.6.4: command/setup_rpl.py, setup_replication.         *)
(*                                                                         *)
(* One call of setup_replication is modelled statement group by statement  *)
(* group; pc is the position of the call.  The Replication object and      *)
(* connect_servers live in mysql.utilities.common, which is not part of    *)
(* the sources at hand: what they answer is drawn from the sets below and  *)
(* remembered in `answers`, so that a second call against the same         *)
(* servers obtains the same answers.                                       *)
(***************************************************************************)
EXTENDS Integers, Sequences, FiniteSets, TLC

VARIABLES
    pc,           \* position of the call inside setup_replication
    options,      \* the caller's options dictionary
    test_db,      \* the test_db argument
    servers,      \* server_id / server_uuid of the two servers
    answers,      \* what the servers answered so far
    asked,        \* the answers already obtained
    verbosity,    \* local: options.get("verbosity", 0)
    rpl_options,  \* local: the copy handed to Replication
    errors,       \* local: the findings of the last check
    calls,        \* the operations of rpl invoked by this call, in order
    report,       \* the findings each check returned to this call
    stdout,       \* the lines printed by this call
    raised,       \* the message of the UtilError that ended the call, or NoError
    conns,        \* the connections this call holds
    link,         \* status of the replication link
    attempts,     \* start attempts made by rpl.setup
    polls,        \* polls made by rpl.test
    seen,         \* the marker was observed by rpl.test
    run,          \* "first" call or "second" call
    prev,         \* what the previous call did
    passed        \* the options the checks of lines 80 and 88 were handed

\* mysqlslavetrx.py, the script
VARIABLES
    sk_pc,        \* position of the script
    opt,          \* the parsed command line
    sk_calls,     \* the operations the script invoked, in order
    subordinates_val, \* the parsed connections of the subordinates
    sk_options,   \* the options dictionary handed to skip_subordinates_trx
    sk_raised,    \* the exception the skip operation ended with, or NoError
    sk_stderr,    \* what the script wrote to standard error
    exited,       \* the process has exited
    exit_code,    \* its exit code
    executed,     \* the executed-GTID set of each subordinate
    executed0,    \* the same before the script ran
    sub_i,        \* the subordinate the skip operation is at
    sk_report     \* the result the skip operation reports per subordinate

\* setup_rpl.py, start_ms_replication, one call per caller
VARIABLES
    ms_pc,        \* position of each caller's call
    daemon,       \* options.get("daemon", None) of each caller
    ms_calls,     \* the operations each caller invoked on its rplms, in order
    ms_raised,    \* the exception each caller's call ended with, or NoError
    dstate,       \* the DaemonState
    inflight,     \* the lifecycle request in flight: its caller and operation
    channels,     \* the status of the channel of each main
    interrupted,  \* has a KeyboardInterrupt reached the caller inside its call
    reachable,    \* can each main be connected to
    fail_fast,    \* the daemon's policy for a channel out of retries
    path          \* the DaemonStates gone through for the request in flight

vars == <<pc, options, test_db, servers, answers, asked, verbosity, rpl_options,
          errors, calls, report, stdout, raised, conns, link, attempts, polls,
          seen, run, prev, passed>>

skip_vars == <<sk_pc, opt, sk_calls, subordinates_val, sk_options, sk_raised,
               sk_stderr, exited, exit_code, executed, executed0, sub_i, sk_report>>

ms_vars == <<ms_pc, daemon, ms_calls, ms_raised, dstate, inflight, channels,
             interrupted, reachable, fail_fast, path>>

others == <<skip_vars, ms_vars>>

all_vars == <<vars, skip_vars, ms_vars>>

----------------------------------------------------------------------------
(* Bounds *)

MaxVerbosity == 1
MaxNeeded == 11

\* The attempt (or poll) at which the servers get there: never, at once, and on
\* either side of a budget of MaxNeeded - 1.
Needed == {0, 1, MaxNeeded - 1, MaxNeeded}

----------------------------------------------------------------------------
(* Values *)

None == "<None>"
NoError == "<no error>"

Range(s) == {s[i] : i \in 1..Len(s)}

\* A dictionary with the one key the code reads: the keys present and the value.
dict_get(d, k, default) == IF k \in d.keys THEN d[k] ELSE default

OptionsSet ==
    {[keys |-> {}, verbosity |-> 0]}
        \cup {[keys |-> {"verbosity"}, verbosity |-> v] : v \in 0..MaxVerbosity}

TestDbSet == {None, "", "rpl_test"}

ServersSet ==
    [main_id : {1}, subordinate_id : {1, 2},
     main_uuid : {"uuid-a"}, subordinate_uuid : {"uuid-a", "uuid-b"}]

ConnectOutcomes == {"ok", "ConnectionError", "VersionError", "UniquenessError"}

InnodbFindings ==
    {<<>>, <<"innodb: version differs (warning)">>,
     <<"innodb: incompatible page size (fatal)">>}

EngineFindings == {<<>>, <<"engine disabled on subordinate">>}

BinlogFindings ==
    {<<>>, <<"binary logging is off on main">>,
     <<"binary logging is off on main", "log_bin cannot be read">>}

FatalFindings ==
    {"innodb: incompatible page size (fatal)", "binary logging is off on main",
     "log_bin cannot be read"}

NoAnswers ==
    [connect |-> "ok", innodb |-> <<>>, engines |-> <<>>, binlog |-> <<>>,
     runningAt |-> 0, seenAt |-> 0]

\* The answers a question may get: the remembered one when it was asked before.
Answer(name, domain) == IF name \in asked THEN {answers[name]} ELSE domain

----------------------------------------------------------------------------
(* The decisions setup_replication takes *)

verbose(v) == v > 0

rpl_options_of(opts, v) ==
    [opts EXCEPT !.keys = @ \cup {"verbosity"}, !.verbosity = verbose(v)]

truthy(s) == s \notin {None, ""}

\* Faulty variant: the checks are handed the copy made for Replication.
check_options_copy(opts, rpl_opts) == rpl_opts

\* lines 80, 88: rpl.check_...(options): the caller's dictionary
check_options(opts, rpl_opts) == opts

\* Faulty variant: the findings of check_main_binlog are never escalated.
binlog_fatal_never(errs) == FALSE

\* line 95: if not errors == []
binlog_fatal(errs) == ~(errs = <<>>)

\* Faulty variant: a start budget of 11.
SETUP_TRIES_eleven == 10 + 1

\* lines 100, 105: the budgets handed to rpl.setup and rpl.test
SETUP_TRIES == 10
TEST_TRIES == 10

\* Faulty variant: the findings of the checks pile up in the local.
assign_errors_extends(old, found) == old \o found

\* lines 58, 67, 80, 88, 94: errors = rpl.check_...(): the local is assigned anew
assign_errors(old, found) == found

\* Faulty variant: the InnoDB and storage-engine blocks are swapped.
after_check_reordered(p, v) ==
    CASE p = "check_server_ids" -> "check_server_uuids"
      [] p = "check_server_uuids" -> "check_storage_engines"
      [] p = "check_storage_engines" -> "check_innodb_compatibility"
      [] p = "check_innodb_compatibility" -> "check_main_binlog"

\* Faulty variant: the InnoDB check sits under `if verbosity > 0`.
after_check_quiet_skips(p, v) ==
    CASE p = "check_server_ids" -> "check_server_uuids"
      [] p = "check_server_uuids" ->
            IF v > 0 THEN "check_innodb_compatibility" ELSE "check_storage_engines"
      [] p = "check_innodb_compatibility" -> "check_storage_engines"
      [] p = "check_storage_engines" -> "check_main_binlog"

\* The check that follows check p (lines 58-94).  The verbosity v selects only
\* what is printed in between (lines 63, 72, 77, 85).
after_check(p, v) ==
    CASE p = "check_server_ids" -> "check_server_uuids"
      [] p = "check_server_uuids" -> "check_innodb_compatibility"
      [] p = "check_innodb_compatibility" -> "check_storage_engines"
      [] p = "check_storage_engines" -> "check_main_binlog"

\* Faulty variant: the test runs whether or not a test database was named.
after_setup_always_tests(ok, db) == IF ~ok THEN "raise" ELSE "test"

\* lines 100-105: False raises; the test runs when test_db is truthy
after_setup(ok, db) ==
    IF ~ok THEN "raise" ELSE IF truthy(db) THEN "test" ELSE "finish"

\* Replication.check_server_ids / check_server_uuids: one finding on a collision.
check_server_ids(s) ==
    IF s.main_id = s.subordinate_id
    THEN <<"server_id collision: main and subordinate">>
    ELSE <<>>

check_server_uuids(s) ==
    IF s.main_uuid = s.subordinate_uuid
    THEN <<"server_uuid collision: main and subordinate">>
    ELSE <<>>

id_lines(v, s) ==
    IF verbose(v)
    THEN <<"# main id = " \o ToString(s.main_id),
           "#  subordinate id = " \o ToString(s.subordinate_id)>>
    ELSE <<>>

uuid_lines(v, s) ==
    IF verbose(v)
    THEN <<"# main uuid = " \o s.main_uuid,
           "#  subordinate uuid = " \o s.subordinate_uuid>>
    ELSE <<>>

innodb_lines(v) ==
    IF verbose(v)
    THEN <<"# Checking InnoDB statistics for type and version conflicts.">>
    ELSE <<>>

engine_lines(v) == IF verbose(v) THEN <<"# Checking storage engines...">> ELSE <<>>

----------------------------------------------------------------------------
(* The call *)

Locals0 ==
    /\ verbosity = 0
    /\ rpl_options = [keys |-> {}, verbosity |-> FALSE]
    /\ errors = <<>>
    /\ calls = <<>>
    /\ report = <<>>
    /\ stdout = <<>>
    /\ raised = NoError
    /\ conns = {}
    /\ link = "unconfigured"
    /\ attempts = 0
    /\ polls = 0
    /\ seen = FALSE
    /\ passed = <<>>

\* The script of mysqlslavetrx.py is not running.
SkipIdle ==
    /\ sk_pc = "idle"
    /\ opt = [gtid_set |-> [kind |-> "none", u1 |-> <<>>, u2 |-> <<>>],
              subordinates |-> None, dry_run |-> FALSE,
              verbosity |-> [given |-> FALSE, n |-> 0]]
    /\ sk_calls = <<>>
    /\ subordinates_val = <<>>
    /\ sk_options = [verbosity |-> 0, dry_run |-> FALSE]
    /\ sk_raised = NoError
    /\ sk_stderr = <<>>
    /\ exited = FALSE
    /\ exit_code = 0
    /\ executed = [s \in {"s1", "s2"} |-> [u1 |-> <<>>, u2 |-> <<>>]]
    /\ executed0 = executed
    /\ sub_i = 0
    /\ sk_report = <<>>

\* Nobody calls start_ms_replication.
MsIdle ==
    /\ ms_pc = [c \in {"c1", "c2"} |-> "idle"]
    /\ daemon = [c \in {"c1", "c2"} |-> None]
    /\ ms_calls = [c \in {"c1", "c2"} |-> <<>>]
    /\ ms_raised = [c \in {"c1", "c2"} |-> NoError]
    /\ dstate = "stopped"
    /\ inflight = {}
    /\ channels = [m \in {"m1", "m2", "m3"} |-> "unconfigured"]
    /\ interrupted = [c \in {"c1", "c2"} |-> FALSE]
    /\ reachable = [m \in {"m1", "m2", "m3"} |-> TRUE]
    /\ fail_fast = FALSE
    /\ path = <<>>

Init ==
    /\ pc = "start"
    /\ options \in OptionsSet
    /\ test_db \in TestDbSet
    /\ servers \in ServersSet
    /\ answers = NoAnswers
    /\ asked = {}
    /\ run = "first"
    /\ prev = [calls |-> <<>>, report |-> <<>>, raised |-> NoError, done |-> FALSE]
    /\ Locals0
    /\ SkipIdle
    /\ MsIdle

\* lines 41-54: read the verbosity, resolve the two connections, copy the options
Connect ==
    /\ pc = "start"
    /\ verbosity' = dict_get(options, "verbosity", 0)
    /\ \E a \in Answer("connect", ConnectOutcomes) :
        /\ answers' = [answers EXCEPT !.connect = a]
        /\ asked' = asked \cup {"connect"}
        /\ IF a = "ok"
           THEN /\ conns' = {"main", "subordinate"}
                /\ rpl_options' = rpl_options_of(options, verbosity')
                /\ raised' = raised
                /\ pc' = "check_server_ids"
           ELSE /\ conns' = {}
                /\ rpl_options' = rpl_options
                /\ raised' = a
                /\ pc' = "done"
    /\ UNCHANGED others
    /\ UNCHANGED <<passed, options, test_db, servers, errors, calls, report, stdout, link,
                   attempts, polls, seen, run, prev>>

\* lines 56-65: the Replication object, check_server_ids, the findings printed
CheckServerIds ==
    /\ pc = "check_server_ids"
    /\ LET found == check_server_ids(servers) IN
        /\ errors' = assign_errors(errors, found)
        /\ report' = Append(report, [check |-> "check_server_ids", findings |-> found])
    /\ calls' = Append(calls, "check_server_ids")
    /\ stdout' = stdout \o errors' \o id_lines(verbosity, servers)
    /\ pc' = after_check(pc, verbosity)
    /\ UNCHANGED others
    /\ UNCHANGED <<passed, options, test_db, servers, answers, asked, verbosity, rpl_options,
                   raised, conns, link, attempts, polls, seen, run, prev>>

\* lines 67-74
CheckServerUuids ==
    /\ pc = "check_server_uuids"
    /\ LET found == check_server_uuids(servers) IN
        /\ errors' = assign_errors(errors, found)
        /\ report' = Append(report, [check |-> "check_server_uuids", findings |-> found])
    /\ calls' = Append(calls, "check_server_uuids")
    /\ stdout' = stdout \o errors' \o uuid_lines(verbosity, servers)
    /\ pc' = after_check(pc, verbosity)
    /\ UNCHANGED others
    /\ UNCHANGED <<passed, options, test_db, servers, answers, asked, verbosity, rpl_options,
                   raised, conns, link, attempts, polls, seen, run, prev>>

\* lines 76-82
CheckInnodbCompatibility ==
    /\ pc = "check_innodb_compatibility"
    /\ \E a \in Answer("innodb", InnodbFindings) :
        /\ answers' = [answers EXCEPT !.innodb = a]
        /\ asked' = asked \cup {"innodb"}
        /\ errors' = assign_errors(errors, a)
        /\ report' = Append(report, [check |-> "check_innodb_compatibility",
                                     findings |-> a])
    /\ calls' = Append(calls, "check_innodb_compatibility")
    /\ passed' = Append(passed, check_options(options, rpl_options))
    /\ stdout' = stdout \o innodb_lines(verbosity) \o errors'
    /\ pc' = after_check(pc, verbosity)
    /\ UNCHANGED others
    /\ UNCHANGED <<options, test_db, servers, verbosity, rpl_options, raised, conns,
                   link, attempts, polls, seen, run, prev>>

\* lines 84-90
CheckStorageEngines ==
    /\ pc = "check_storage_engines"
    /\ \E a \in Answer("engines", EngineFindings) :
        /\ answers' = [answers EXCEPT !.engines = a]
        /\ asked' = asked \cup {"engines"}
        /\ errors' = assign_errors(errors, a)
        /\ report' = Append(report, [check |-> "check_storage_engines",
                                     findings |-> a])
    /\ calls' = Append(calls, "check_storage_engines")
    /\ passed' = Append(passed, check_options(options, rpl_options))
    /\ stdout' = stdout \o engine_lines(verbosity) \o errors'
    /\ pc' = after_check(pc, verbosity)
    /\ UNCHANGED others
    /\ UNCHANGED <<options, test_db, servers, verbosity, rpl_options, raised, conns,
                   link, attempts, polls, seen, run, prev>>

\* lines 92-96: the check is announced; a finding raises UtilError(errors[0])
CheckMainBinlog ==
    /\ pc = "check_main_binlog"
    /\ \E a \in Answer("binlog", BinlogFindings) :
        /\ answers' = [answers EXCEPT !.binlog = a]
        /\ asked' = asked \cup {"binlog"}
        /\ errors' = assign_errors(errors, a)
        /\ report' = Append(report, [check |-> "check_main_binlog", findings |-> a])
    /\ calls' = Append(calls, "check_main_binlog")
    /\ stdout' = Append(stdout, "# Checking for binary logging on main...")
    /\ IF binlog_fatal(errors')
       THEN /\ raised' = errors'[1]
            /\ pc' = "done"
       ELSE /\ raised' = raised
            /\ pc' = "setup"
    /\ UNCHANGED others
    /\ UNCHANGED <<passed, options, test_db, servers, verbosity, rpl_options, conns, link,
                   attempts, polls, seen, run, prev>>

\* lines 98-100: the step is announced and rpl.setup(rpl_user, 10) is entered
SetupCall ==
    /\ pc = "setup"
    /\ stdout' = Append(stdout, "# Setting up replication...")
    /\ calls' = Append(calls, "setup")
    /\ \E a \in Answer("runningAt", Needed) :
        /\ answers' = [answers EXCEPT !.runningAt = a]
        /\ asked' = asked \cup {"runningAt"}
    /\ attempts' = 0
    /\ link' = "configuring"
    /\ pc' = "setup_loop"
    /\ UNCHANGED others
    /\ UNCHANGED <<passed, options, test_db, servers, verbosity, rpl_options, errors, report,
                   raised, conns, polls, seen, run, prev>>

\* Replication.setup: one start attempt within the budget
SetupAttempt ==
    /\ pc = "setup_loop"
    /\ link = "configuring"
    /\ attempts < SETUP_TRIES
    /\ attempts' = attempts + 1
    /\ link' = IF answers.runningAt = attempts' THEN "running" ELSE link
    /\ UNCHANGED others
    /\ UNCHANGED <<passed, pc, options, test_db, servers, answers, asked, verbosity,
                   rpl_options, errors, calls, report, stdout, raised, conns, polls,
                   seen, run, prev>>

\* lines 100-105: rpl.setup returns; False raises, else the test or the end
SetupReturn ==
    /\ pc = "setup_loop"
    /\ link = "running" \/ attempts >= SETUP_TRIES
    /\ LET next == after_setup(link = "running", test_db) IN
        /\ pc' = IF next = "raise" THEN "done" ELSE next
        /\ raised' = IF next = "raise" THEN "Cannot setup replication." ELSE raised
        /\ link' = IF next = "raise" THEN "failed" ELSE link
    /\ UNCHANGED others
    /\ UNCHANGED <<passed, options, test_db, servers, answers, asked, verbosity, rpl_options,
                   errors, calls, report, stdout, conns, attempts, polls, seen, run,
                   prev>>

\* line 105: rpl.test(test_db, 10) is entered
TestCall ==
    /\ pc = "test"
    /\ calls' = Append(calls, "test")
    /\ \E a \in Answer("seenAt", Needed) :
        /\ answers' = [answers EXCEPT !.seenAt = a]
        /\ asked' = asked \cup {"seenAt"}
    /\ polls' = 0
    /\ seen' = FALSE
    /\ stdout' = Append(stdout, "# Testing the replication setup...")
    /\ pc' = "test_loop"
    /\ UNCHANGED others
    /\ UNCHANGED <<passed, options, test_db, servers, verbosity, rpl_options, errors, report,
                   raised, conns, link, attempts, run, prev>>

\* Replication.test: one poll of the subordinate within the budget
TestPoll ==
    /\ pc = "test_loop"
    /\ ~seen
    /\ polls < TEST_TRIES
    /\ polls' = polls + 1
    /\ seen' = (answers.seenAt = polls')
    /\ UNCHANGED others
    /\ UNCHANGED <<passed, pc, options, test_db, servers, answers, asked, verbosity,
                   rpl_options, errors, calls, report, stdout, raised, conns, link,
                   attempts, run, prev>>

\* Replication.test returns: the result is reported, not raised
TestReturn ==
    /\ pc = "test_loop"
    /\ seen \/ polls >= TEST_TRIES
    /\ stdout' = Append(stdout, IF seen THEN "# Success! Replication is running."
                                ELSE "# ERROR: test failed, marker not replicated.")
    /\ pc' = "finish"
    /\ UNCHANGED others
    /\ UNCHANGED <<passed, options, test_db, servers, answers, asked, verbosity, rpl_options,
                   errors, calls, report, raised, conns, link, attempts, polls, seen,
                   run, prev>>

\* line 107
Finish ==
    /\ pc = "finish"
    /\ stdout' = Append(stdout, "# ...done.")
    /\ pc' = "done"
    /\ UNCHANGED others
    /\ UNCHANGED <<passed, options, test_db, servers, answers, asked, verbosity, rpl_options,
                   errors, calls, report, raised, conns, link, attempts, polls, seen,
                   run, prev>>

\* lines 30-31: the caller calls again, with another verbosity and nothing else
\* changed; the servers answer as before.
CallAgain ==
    /\ pc = "done"
    /\ run = "first"
    /\ run' = "second"
    /\ prev' = [calls |-> calls, report |-> report, raised |-> raised, done |-> TRUE]
    /\ \E o \in OptionsSet :
        /\ dict_get(o, "verbosity", 0) # dict_get(options, "verbosity", 0)
        /\ options' = o
    /\ pc' = "start"
    /\ verbosity' = 0
    /\ rpl_options' = [keys |-> {}, verbosity |-> FALSE]
    /\ errors' = <<>>
    /\ calls' = <<>>
    /\ report' = <<>>
    /\ stdout' = <<>>
    /\ raised' = NoError
    /\ conns' = {}
    /\ link' = "unconfigured"
    /\ attempts' = 0
    /\ polls' = 0
    /\ seen' = FALSE
    /\ passed' = <<>>
    /\ UNCHANGED others
    /\ UNCHANGED <<test_db, servers, answers, asked>>

Next ==
    \/ Connect
    \/ CheckServerIds
    \/ CheckServerUuids
    \/ CheckInnodbCompatibility
    \/ CheckStorageEngines
    \/ CheckMainBinlog
    \/ SetupCall
    \/ SetupAttempt
    \/ SetupReturn
    \/ TestCall
    \/ TestPoll
    \/ TestReturn
    \/ Finish
    \/ CallAgain

Spec == Init /\ [][Next]_vars

\* The interpreter keeps executing the call: every enabled step is taken.
FairSpec == Spec /\ WF_vars(Next)

----------------------------------------------------------------------------
(* scripts/mysqlslavetrx.py: the script, from line 126 on.  The skip operation
   (command/rpl_admin.py), the format check and the connection parser are not
   part of the sources at hand. *)

MaxTrx == 3

\* setup_replication is not being called.
SetupIdle ==
    /\ pc = "idle"
    /\ options = [keys |-> {}, verbosity |-> 0]
    /\ test_db = None
    /\ servers = [main_id |-> 1, subordinate_id |-> 2,
                  main_uuid |-> "uuid-a", subordinate_uuid |-> "uuid-b"]
    /\ answers = NoAnswers
    /\ asked = {}
    /\ run = "first"
    /\ prev = [calls |-> <<>>, report |-> <<>>, raised |-> NoError, done |-> FALSE]
    /\ Locals0

(* GTID sets: per source UUID a sequence of ranges <<first, last>> *)

Expand(rs) == UNION {rs[i][1]..rs[i][2] : i \in 1..Len(rs)}

Least(S) == CHOOSE x \in S : \A y \in S : x <= y

RunEnd(S, lo) == CHOOSE h \in S : (lo..h) \subseteq S /\ (h + 1) \notin S /\ h >= lo

RECURSIVE ToRanges(_)
\* The ascending, non-adjacent ranges that cover the set S.
ToRanges(S) ==
    IF S = {} THEN <<>>
    ELSE LET lo == Least(S)
             hi == RunEnd(S, lo)
         IN <<<<lo, hi>>>> \o ToRanges(S \ (lo..hi))

WellFormedRanges(rs) ==
    /\ \A i \in 1..Len(rs) : rs[i][1] <= rs[i][2]
    /\ \A i \in 1..(Len(rs) - 1) : rs[i][2] < rs[i + 1][1]

EmptyGtidSet == [u1 |-> <<>>, u2 |-> <<>>]

FullGtidSet == [u1 |-> <<<<1, MaxTrx>>>>, u2 |-> <<<<1, 1>>>>]

Members(g) == ({"u1"} \X Expand(g.u1)) \cup ({"u2"} \X Expand(g.u2))

CanonRanges == {ToRanges(S) : S \in SUBSET (1..MaxTrx)}

\* reversed, overlapping, descending
MalformedRanges == {<<<<2, 1>>>>, <<<<1, 2>>, <<2, 3>>>>, <<<<3, 3>>, <<1, 1>>>>}

U2Ranges == {<<>>, <<<<1, 1>>>>}

GtidArgs ==
    {[kind |-> "none", u1 |-> <<>>, u2 |-> <<>>],
     [kind |-> "empty", u1 |-> <<>>, u2 |-> <<>>]}
        \cup ({[kind |-> "text", u1 |-> a, u2 |-> b] :
                    a \in CanonRanges \cup MalformedRanges, b \in U2Ranges}
              \ {[kind |-> "text", u1 |-> <<>>, u2 |-> <<>>]})

SubordinatesArgs == {None, "", "s1", "s1,s2", "s1,@@"}

OptSet ==
    [gtid_set : GtidArgs, subordinates : SubordinatesArgs, dry_run : BOOLEAN,
     verbosity : {[given |-> FALSE, n |-> 0], [given |-> TRUE, n |-> 1]}]

ExecutedSet ==
    {[s \in {"s1", "s2"} |-> IF s = "s1" THEN a ELSE b] :
        a \in [u1 : CanonRanges, u2 : U2Ranges], b \in {EmptyGtidSet, FullGtidSet}}

\* the value of --gtid-set as the script tests it
gtid_text(g) == IF g.kind = "none" THEN None ELSE IF g.kind = "empty" THEN "" ELSE "text"

\* Faulty variant: only an absent option counts as missing.
not_given_is_none(v) == v = None

\* lines 127, 129: if not opt.gtid_set / if not opt.subordinates
not_given(v) == v \in {None, ""}

\* Faulty variant: the format check is left out.
step_after_required_no_format == "parse_conn"

\* lines 132-133 follow the required options
step_after_required == "format"

\* check_gtid_set_format: does the text parse into sorted, non-overlapping ranges
gtid_wellformed(g) ==
    /\ g.kind = "text"
    /\ WellFormedRanges(g.u1)
    /\ WellFormedRanges(g.u2)

\* parse_topology_connections: the connections of --subordinates, or an error
parse_subordinates(text) ==
    CASE text = "s1" -> <<"s1">>
      [] text = "s1,s2" -> <<"s1", "s2">>
      [] OTHER -> <<>>

parse_fails(text) == text \notin {"s1", "s1,s2"}

\* Faulty variant: the dry-run flag is not handed on.
skip_options_no_dry_run(o) ==
    [verbosity |-> IF o.verbosity.given THEN o.verbosity.n ELSE 0, dry_run |-> FALSE]

\* lines 147-150
skip_options(o) ==
    [verbosity |-> IF o.verbosity.given THEN o.verbosity.n ELSE 0,
     dry_run |-> o.dry_run]

\* optparse: parser.error() exits with status 2
PARSER_ERROR_EXIT == 2

\* Faulty variant: the handlers exit with status 0.
EXIT_ERROR_zero == 1 - 1

\* lines 144, 158: sys.exit(1); an uncaught exception ends the interpreter alike
EXIT_ERROR == 1

\* Faulty variant: what lies to the right of the executed range is lost.
range_minus_left_only(r, e) ==
    IF e[2] < r[1] \/ e[1] > r[2] THEN <<r>>
    ELSE IF r[1] < e[1] THEN <<<<r[1], e[1] - 1>>>> ELSE <<>>

\* One requested range less one executed range: what is left of it on either side.
range_minus(r, e) ==
    IF e[2] < r[1] \/ e[1] > r[2] THEN <<r>>
    ELSE (IF r[1] < e[1] THEN <<<<r[1], e[1] - 1>>>> ELSE <<>>)
            \o (IF e[2] < r[2] THEN <<<<e[2] + 1, r[2]>>>> ELSE <<>>)

RECURSIVE ranges_minus_one(_, _)
ranges_minus_one(rs, e) ==
    IF rs = <<>> THEN <<>>
    ELSE range_minus(Head(rs), e) \o ranges_minus_one(Tail(rs), e)

RECURSIVE ranges_minus(_, _)
ranges_minus(rs, es) ==
    IF es = <<>> THEN rs
    ELSE ranges_minus(ranges_minus_one(rs, Head(es)), Tail(es))

\* toSkip = requested - executed, per source UUID
gtid_subtract(req, exe) ==
    [u1 |-> ranges_minus(req.u1, exe.u1), u2 |-> ranges_minus(req.u2, exe.u2)]

\* the ranges to inject, ascending per UUID
todo_of(g) ==
    [i \in 1..(Len(g.u1) + Len(g.u2)) |->
        IF i <= Len(g.u1) THEN <<"u1", g.u1[i]>> ELSE <<"u2", g.u2[i - Len(g.u1)]>>]

\* an empty transaction committed for every GTID of range r of UUID u
inject(exe, u, r) == [exe EXCEPT ![u] = ToRanges(Expand(@) \cup (r[1]..r[2]))]

RECURSIVE inject_all(_, _, _)
inject_all(exe, todo, n) ==
    IF n = 0 THEN exe
    ELSE inject(inject_all(exe, todo, n - 1), todo[n][1], todo[n][2])

request_of(g) == [u1 |-> g.u1, u2 |-> g.u2]

SkipInit ==
    /\ SetupIdle
    /\ MsIdle
    /\ sk_pc = "required"
    /\ opt \in OptSet
    /\ sk_calls = <<>>
    /\ subordinates_val = <<>>
    /\ sk_options = [verbosity |-> 0, dry_run |-> FALSE]
    /\ sk_raised = NoError
    /\ sk_stderr = <<>>
    /\ exited = FALSE
    /\ exit_code = 0
    /\ executed \in ExecutedSet
    /\ executed0 = executed
    /\ sub_i = 0
    /\ sk_report = <<>>

\* lines 126-130: both options are required; parser.error() ends the process
CheckRequired ==
    /\ sk_pc = "required"
    /\ IF not_given(gtid_text(opt.gtid_set))
       THEN /\ sk_stderr' = Append(sk_stderr, "error: option --gtid-set is required")
            /\ exited' = TRUE
            /\ exit_code' = PARSER_ERROR_EXIT
            /\ sk_pc' = "exit"
       ELSE IF not_given(opt.subordinates)
       THEN /\ sk_stderr' = Append(sk_stderr, "error: option --subordinates is required")
            /\ exited' = TRUE
            /\ exit_code' = PARSER_ERROR_EXIT
            /\ sk_pc' = "exit"
       ELSE /\ sk_pc' = step_after_required
            /\ UNCHANGED <<sk_stderr, exited, exit_code>>
    /\ UNCHANGED <<opt, sk_calls, subordinates_val, sk_options, sk_raised, executed,
                   executed0, sub_i, sk_report>>
    /\ UNCHANGED <<vars, ms_vars>>

\* lines 132-133: check_gtid_set_format(parser, opt.gtid_set)
CheckGtidFormat ==
    /\ sk_pc = "format"
    /\ sk_calls' = Append(sk_calls, "check_gtid_set_format")
    /\ IF gtid_wellformed(opt.gtid_set)
       THEN /\ sk_pc' = "parse_conn"
            /\ UNCHANGED <<sk_stderr, exited, exit_code>>
       ELSE /\ sk_stderr' = Append(sk_stderr, "error: invalid GTID set format")
            /\ exited' = TRUE
            /\ exit_code' = PARSER_ERROR_EXIT
            /\ sk_pc' = "exit"
    /\ UNCHANGED <<opt, subordinates_val, sk_options, sk_raised, executed, executed0,
                   sub_i, sk_report>>
    /\ UNCHANGED <<vars, ms_vars>>

\* lines 135-144: parse_topology_connections; UtilRplError is written and exits 1
ParseConnections ==
    /\ sk_pc = "parse_conn"
    /\ sk_calls' = Append(sk_calls, "parse_topology_connections")
    /\ IF parse_fails(opt.subordinates)
       THEN /\ sk_stderr' = Append(sk_stderr, "ERROR: cannot parse --subordinates")
            /\ exited' = TRUE
            /\ exit_code' = EXIT_ERROR
            /\ sk_pc' = "exit"
            /\ UNCHANGED subordinates_val
       ELSE /\ subordinates_val' = parse_subordinates(opt.subordinates)
            /\ sk_pc' = "skip"
            /\ UNCHANGED <<sk_stderr, exited, exit_code>>
    /\ UNCHANGED <<opt, sk_options, sk_raised, executed, executed0, sub_i, sk_report>>
    /\ UNCHANGED <<vars, ms_vars>>

\* lines 146-154: the options dictionary; skip_subordinates_trx is entered
SkipCall ==
    /\ sk_pc = "skip"
    /\ sk_options' = skip_options(opt)
    /\ sk_calls' = Append(sk_calls, "skip_subordinates_trx")
    /\ sub_i' = 1
    /\ sk_pc' = "engine"
    /\ UNCHANGED <<opt, subordinates_val, sk_raised, sk_stderr, exited, exit_code,
                   executed, executed0, sk_report>>
    /\ UNCHANGED <<vars, ms_vars>>

\* skip_subordinates_trx, one subordinate: its executed set is fetched, toSkip
\* computed and, unless this is a dry run, injected range by range; a range
\* that fails leaves the subordinate partially skipped.
EngineSubordinate ==
    /\ sk_pc = "engine"
    /\ sk_raised = NoError
    /\ sub_i <= Len(subordinates_val)
    /\ LET s == subordinates_val[sub_i]
           toSkip == gtid_subtract(request_of(opt.gtid_set), executed[s])
           todo == todo_of(toSkip)
       IN \E fail \in {"none", "UtilError", "Exception"} :
            IF fail # "none"
            THEN /\ sk_raised' = fail
                 /\ UNCHANGED <<executed, sk_report, sub_i>>
            ELSE /\ sub_i' = sub_i + 1
                 /\ sk_raised' = sk_raised
                 /\ IF todo = <<>>
                    THEN /\ sk_report' = Append(sk_report,
                                [sub |-> s, toSkip |-> toSkip, status |-> "nothing to skip"])
                         /\ UNCHANGED executed
                    ELSE IF sk_options.dry_run
                    THEN /\ sk_report' = Append(sk_report,
                                [sub |-> s, toSkip |-> toSkip, status |-> "would skip"])
                         /\ UNCHANGED executed
                    ELSE \E n \in 0..Len(todo) :
                         /\ executed' = [executed EXCEPT ![s] = inject_all(@, todo, n)]
                         /\ sk_report' = Append(sk_report,
                                [sub |-> s, toSkip |-> toSkip,
                                 status |-> IF n = Len(todo) THEN "skipped"
                                            ELSE "partially skipped"])
    /\ UNCHANGED <<sk_pc, opt, sk_calls, subordinates_val, sk_options, sk_stderr,
                   exited, exit_code, executed0>>
    /\ UNCHANGED <<vars, ms_vars>>

PartiallySkipped == \E i \in 1..Len(sk_report) : sk_report[i].status = "partially skipped"

\* lines 153-158 and the end of the script: UtilError is written and exits 1,
\* any other exception ends the interpreter with a traceback, else status 0
SkipReturn ==
    /\ sk_pc = "engine"
    /\ sk_raised # NoError \/ sub_i > Len(subordinates_val)
    /\ LET err == IF sk_raised # NoError THEN sk_raised
                  ELSE IF PartiallySkipped THEN "UtilError" ELSE NoError
       IN /\ sk_raised' = err
          /\ sk_stderr' = IF err = "UtilError" THEN Append(sk_stderr, "ERROR: skip failed")
                          ELSE IF err = "Exception"
                          THEN Append(sk_stderr, "Traceback (most recent call last)")
                          ELSE sk_stderr
          /\ exit_code' = IF err = NoError THEN 0 ELSE EXIT_ERROR
    /\ exited' = TRUE
    /\ sk_pc' = "exit"
    /\ UNCHANGED <<opt, sk_calls, subordinates_val, sk_options, executed, executed0,
                   sub_i, sk_report>>
    /\ UNCHANGED <<vars, ms_vars>>

SkipNext ==
    \/ CheckRequired
    \/ CheckGtidFormat
    \/ ParseConnections
    \/ SkipCall
    \/ EngineSubordinate
    \/ SkipReturn

SkipSpec == SkipInit /\ [][SkipNext]_all_vars

----------------------------------------------------------------------------
(* command/setup_rpl.py, start_ms_replication, called once by each of two
   callers on the same subordinate.  ReplicationMultiSource and the daemon
   behind it are not part of the sources at hand. *)

Callers == {"c1", "c2"}

Mains == {"m1", "m2", "m3"}

\* the values of options.get("daemon", None): absent, the three verbs, another
DaemonArgs == {None, "start", "stop", "restart", "status"}

FOREGROUND == "start(detach_process=False)"


\* Faulty variant: 'stop' is dispatched to restart.
lifecycle_op_stop_restarts(d) ==
    IF d = "start" THEN "start"
    ELSE IF d = "stop" THEN "restart"
    ELSE IF d = "restart" THEN "restart"
    ELSE FOREGROUND

\* lines 119-128: the operation invoked on rplms for a value of the option
lifecycle_op(d) ==
    IF d = "start" THEN "start"
    ELSE IF d = "stop" THEN "stop"
    ELSE IF d = "restart" THEN "restart"
    ELSE FOREGROUND

\* Faulty variant: no call is wrapped in the try statement.
catches_interrupt_never(op) == FALSE

\* lines 126-129: only the call of line 128 is inside try/except KeyboardInterrupt
catches_interrupt(op) == op = FOREGROUND

\* the request a lifecycle operation puts to the daemon
verb_of(op) == IF op = FOREGROUND THEN "start" ELSE op

\* Faulty variant: a request is accepted while another is in flight.
busy_never(reqs) == FALSE

\* a request is in flight: another one is rejected with DaemonBusyError
busy(reqs) == reqs # {}

\* the DaemonState a request moves the daemon to first; itself if none
first_step(verb, s) ==
    CASE verb = "start" /\ s \in {"stopped", "failed"} -> "starting"
      [] verb = "stop" /\ s \in {"starting", "running"} -> "stopping"
      [] verb = "restart" /\ s = "running" -> "stopping"
      [] verb = "restart" /\ s \in {"stopped", "failed"} -> "starting"
      [] OTHER -> s

\* Faulty variant: one channel in error fails the daemon.
settle_any_error_fails(ff, chans) ==
    IF \E m \in Mains : chans[m] \in {"ConnectionError", "exhausted"}
    THEN "failed" ELSE "running"

\* starting -> failed if a channel is out of retries and the policy is fail
\* fast; starting -> running otherwise
settle(ff, chans) ==
    IF ff /\ \E m \in Mains : chans[m] = "exhausted" THEN "failed" ELSE "running"

channel_outcome(ok) == IF ok THEN "active" ELSE "ConnectionError"

Own(c) == {r \in inflight : r.by = c}

MsInit ==
    /\ SetupIdle
    /\ SkipIdle
    /\ ms_pc = [c \in Callers |-> "call"]
    /\ daemon \in [Callers -> DaemonArgs]
    /\ ms_calls = [c \in Callers |-> <<>>]
    /\ ms_raised = [c \in Callers |-> NoError]
    /\ interrupted = [c \in Callers |-> FALSE]
    /\ reachable \in [Mains -> BOOLEAN]
    /\ fail_fast \in BOOLEAN
    /\ dstate \in {"stopped", "running"}
    /\ channels = [m \in Mains |-> IF dstate = "running" THEN channel_outcome(reachable[m])
                                   ELSE "unconfigured"]
    /\ inflight = {}
    /\ path = <<>>

\* the daemon takes the request of caller c, unless it asks for nothing
Accept(c, verb) ==
    LET new == first_step(verb, dstate)
    IN IF new = dstate
       THEN UNCHANGED <<dstate, inflight, channels, path>>
       ELSE /\ dstate' = new
            /\ inflight' = (inflight \ Own(c)) \cup {[by |-> c, verb |-> verb]}
            /\ path' = <<dstate, new>>
            /\ channels' = IF new = "starting" THEN [m \in Mains |-> "pending"]
                           ELSE channels

\* lines 117-128: the object is made and one operation invoked on it
MsCall(c) ==
    /\ ms_pc[c] = "call"
    /\ LET op == lifecycle_op(daemon[c])
       IN /\ ms_calls' = [ms_calls EXCEPT ![c] = Append(@, op)]
          /\ IF busy(inflight)
             THEN /\ ms_raised' = [ms_raised EXCEPT ![c] = "DaemonBusyError"]
                  /\ ms_pc' = [ms_pc EXCEPT ![c] = "done"]
                  /\ UNCHANGED <<dstate, inflight, channels, path>>
             ELSE /\ ms_pc' = [ms_pc EXCEPT ![c] = "in_op"]
                  /\ Accept(c, verb_of(op))
                  /\ UNCHANGED ms_raised
    /\ UNCHANGED <<daemon, interrupted, reachable, fail_fast>>
    /\ UNCHANGED <<vars, skip_vars>>

\* a KeyboardInterrupt reaches the caller inside the operation: lines 129-131
\* take it on the foreground path, on the others it leaves the function
Interrupt(c) ==
    /\ ms_pc[c] = "in_op"
    /\ ~interrupted[c]
    /\ interrupted' = [interrupted EXCEPT ![c] = TRUE]
    /\ IF catches_interrupt(ms_calls[c][1])
       THEN /\ ms_pc' = [ms_pc EXCEPT ![c] = "handler"]
            /\ UNCHANGED ms_raised
       ELSE /\ ms_pc' = [ms_pc EXCEPT ![c] = "done"]
            /\ ms_raised' = [ms_raised EXCEPT ![c] = "KeyboardInterrupt"]
    /\ UNCHANGED <<daemon, ms_calls, dstate, inflight, channels, reachable, fail_fast, path>>
    /\ UNCHANGED <<vars, skip_vars>>

\* line 131: rplms.stop_replication(), waiting for another caller's request
StopReplication(c) ==
    /\ ms_pc[c] = "handler"
    /\ inflight \subseteq Own(c)
    /\ ms_calls' = [ms_calls EXCEPT ![c] = Append(@, "stop_replication")]
    /\ ms_pc' = [ms_pc EXCEPT ![c] = "in_handler"]
    /\ Accept(c, "stop")
    /\ UNCHANGED <<daemon, ms_raised, interrupted, reachable, fail_fast>>
    /\ UNCHANGED <<vars, skip_vars>>

\* the operation returns: its request is through; a foreground start returns
\* only when the daemon is no longer up
MsReturn(c) ==
    /\ ms_pc[c] \in {"in_op", "in_handler"}
    /\ Own(c) = {}
    /\ (ms_pc[c] = "in_op" /\ ms_calls[c][1] = FOREGROUND)
            => dstate \notin {"starting", "running"}
    /\ ms_pc' = [ms_pc EXCEPT ![c] = "done"]
    /\ UNCHANGED <<daemon, ms_calls, ms_raised, dstate, inflight, channels, interrupted,
                   reachable, fail_fast, path>>
    /\ UNCHANGED <<vars, skip_vars>>

\* one channel is set up, whatever the others do
ChannelSetup(m) ==
    /\ dstate = "starting"
    /\ channels[m] = "pending"
    /\ channels' = [channels EXCEPT ![m] = channel_outcome(reachable[m])]
    /\ UNCHANGED <<ms_pc, daemon, ms_calls, ms_raised, dstate, inflight, interrupted,
                   reachable, fail_fast, path>>
    /\ UNCHANGED <<vars, skip_vars>>

\* a channel in error runs out of retries
ChannelExhaust(m) ==
    /\ dstate = "starting"
    /\ channels[m] = "ConnectionError"
    /\ channels' = [channels EXCEPT ![m] = "exhausted"]
    /\ UNCHANGED <<ms_pc, daemon, ms_calls, ms_raised, dstate, inflight, interrupted,
                   reachable, fail_fast, path>>
    /\ UNCHANGED <<vars, skip_vars>>

\* starting -> running or failed, every channel having had its turn
StartSettle ==
    /\ dstate = "starting"
    /\ \A m \in Mains : channels[m] # "pending"
    /\ dstate' = settle(fail_fast, channels)
    /\ path' = Append(path, dstate')
    /\ inflight' = {}
    /\ UNCHANGED <<ms_pc, daemon, ms_calls, ms_raised, channels, interrupted, reachable,
                   fail_fast>>
    /\ UNCHANGED <<vars, skip_vars>>

\* stopping: one channel is shut down
ChannelStop(m) ==
    /\ dstate = "stopping"
    /\ channels[m] # "stopped"
    /\ channels' = [channels EXCEPT ![m] = "stopped"]
    /\ UNCHANGED <<ms_pc, daemon, ms_calls, ms_raised, dstate, inflight, interrupted,
                   reachable, fail_fast, path>>
    /\ UNCHANGED <<vars, skip_vars>>

\* stopping -> stopped; a restart stays in flight for its second half
StopSettle ==
    /\ dstate = "stopping"
    /\ \A m \in Mains : channels[m] = "stopped"
    /\ dstate' = "stopped"
    /\ path' = Append(path, "stopped")
    /\ inflight' = {r \in inflight : r.verb = "restart"}
    /\ UNCHANGED <<ms_pc, daemon, ms_calls, ms_raised, channels, interrupted, reachable,
                   fail_fast>>
    /\ UNCHANGED <<vars, skip_vars>>

\* restart, second half: stopped -> starting
RestartStart ==
    /\ dstate = "stopped"
    /\ \E r \in inflight : r.verb = "restart"
    /\ dstate' = "starting"
    /\ path' = Append(path, "starting")
    /\ channels' = [m \in Mains |-> "pending"]
    /\ UNCHANGED <<ms_pc, daemon, ms_calls, ms_raised, inflight, interrupted, reachable,
                   fail_fast>>
    /\ UNCHANGED <<vars, skip_vars>>

MsNext ==
    \/ \E c \in Callers : MsCall(c)
    \/ \E c \in Callers : Interrupt(c)
    \/ \E c \in Callers : StopReplication(c)
    \/ \E c \in Callers : MsReturn(c)
    \/ \E m \in Mains : ChannelSetup(m)
    \/ \E m \in Mains : ChannelExhaust(m)
    \/ StartSettle
    \/ \E m \in Mains : ChannelStop(m)
    \/ StopSettle
    \/ RestartStart

MsSpec == MsInit /\ [][MsNext]_all_vars

----------------------------------------------------------------------------
(* Properties *)

Invoked(op) == op \in Range(calls)

Count(op) == Cardinality({i \in 1..Len(calls) : calls[i] = op})

IsPrefix(s, t) == Len(s) <= Len(t) /\ s = SubSeq(t, 1, Len(s))

CheckOrder ==
    <<"check_server_ids", "check_server_uuids", "check_innodb_compatibility",
      "check_storage_engines", "check_main_binlog">>

\* The findings check_main_binlog returned to this call (<<>> before it returned).
BinlogReturned == Len(report) >= 5
BinlogFound == IF BinlogReturned THEN report[5].findings ELSE <<>>

Completed == pc = "done" /\ raised = NoError

\* C1: whenever check_main_binlog returns a non-empty list of findings, the call
\* ends there with a UtilError, and rpl.setup and rpl.test are invoked at no
\* point of that call, neither before the check nor after it.
C1_BinlogFindingsAbort ==
    /\ (BinlogReturned /\ BinlogFound # <<>>) =>
            /\ pc = "done"
            /\ raised = BinlogFound[1]
            /\ ~Invoked("setup") /\ ~Invoked("test")
            /\ link = "unconfigured"
    /\ ("binlog" \in asked /\ answers.binlog # <<>>) =>
            ~Invoked("setup") /\ ~Invoked("test")

C1_Witness ==
    /\ pc = "done"
    /\ BinlogReturned
    /\ BinlogFound # <<>>
    /\ raised = BinlogFound[1]

\* C2: once the connections are resolved, the five checks are invoked once each in
\* the order server ids, server uuids, InnoDB, storage engines, binary logging;
\* each has returned its findings before the next is invoked, and rpl.setup is
\* invoked only after check_main_binlog has returned.
C2_ChecksInFixedOrder ==
    /\ IsPrefix(calls, CheckOrder \o <<"setup", "test">>)
    /\ Len(report) = (IF Len(calls) < 5 THEN Len(calls) ELSE 5)
    /\ \A i \in 1..Len(report) : report[i].check = CheckOrder[i]
    /\ (pc \in {"setup", "setup_loop", "test", "test_loop", "finish"} \/ Invoked("setup"))
            => (BinlogReturned /\ SubSeq(calls, 1, 5) = CheckOrder)
    /\ (pc = "done" /\ answers.connect = "ok")
            => (Len(calls) >= 5
                /\ SubSeq(calls, 1, 5) = CheckOrder
                /\ \A i \in 1..5 : Count(CheckOrder[i]) = 1)

C2_Witness ==
    /\ Completed
    /\ calls = CheckOrder \o <<"setup", "test">>

\* C3: when main and subordinate have the same server_id, check_server_ids
\* reports a collision finding and the call aborts: rpl.setup is not reached.
C3_IdCollisionAborts ==
    (servers.main_id = servers.subordinate_id /\ Invoked("check_server_ids")) =>
        /\ report[1].findings # <<>>
        /\ \A f \in Range(report[1].findings) : f \in Range(stdout)
        /\ ~Invoked("setup")
        /\ (pc = "done" => raised # NoError)

HasFatalFinding ==
    \E i \in 1..Len(report) : Range(report[i].findings) \cap FatalFindings # {}

\* C4: while the report of the call holds a fatal finding (binary logging off, or
\* a hard InnoDB incompatibility), rpl.setup is not invoked, the link does not
\* run and the call does not complete.
C4_NoSetupWithFatalFinding ==
    HasFatalFinding => (~Invoked("setup") /\ link # "running" /\ ~Completed)

\* C5: whatever checks 1 to 4 found, when check_main_binlog returns no finding
\* the call goes on to rpl.setup; a call that ends before rpl.setup, with its
\* connections resolved, ends on a finding of check_main_binlog.
C5_WarnButContinue ==
    /\ (BinlogReturned /\ BinlogFound = <<>>) => (pc = "setup" \/ Invoked("setup"))
    /\ (pc = "done" /\ answers.connect = "ok" /\ ~Invoked("setup"))
            => (BinlogFound # <<>> /\ raised = BinlogFound[1])

C5_Witness ==
    /\ Invoked("setup")
    /\ \A i \in 1..4 : report[i].findings # <<>>
    /\ "innodb: incompatible page size (fatal)" \in Range(report[3].findings)
    /\ BinlogFound = <<>>

\* C6: rpl.setup is invoked at most once per call and makes at most 10 start
\* attempts; when replication is not running within them the call ends with
\* UtilError("Cannot setup replication."), rpl.test is not invoked and
\* "# ...done." is not printed; and every call comes to its end.
C6_SetupBudget ==
    /\ [](/\ Count("setup") <= 1
          /\ attempts <= 10
          /\ (Invoked("setup") /\ pc # "setup_loop" /\ answers.runningAt \notin 1..10)
                => link = "failed"
          /\ link = "failed" =>
                /\ pc = "done"
                /\ raised = "Cannot setup replication."
                /\ attempts = 10
                /\ ~Invoked("test")
                /\ "# ...done." \notin Range(stdout))
    /\ (pc # "done") ~> (pc = "done")

C6_Witness ==
    /\ link = "failed"
    /\ attempts = 10
    /\ answers.runningAt = 11
    /\ raised = "Cannot setup replication."

Supplied == test_db # None /\ test_db # ""

\* C7: rpl.test is invoked exactly when a test database is named and rpl.setup
\* succeeded; it polls at most 10 times; when the marker is not observed this
\* is printed and the call still completes with "# ...done.".
C7_TestIffSupplied ==
    /\ Invoked("test") => (Supplied /\ link = "running")
    /\ (pc \in {"finish", "done"} /\ link = "running" /\ Supplied) => Invoked("test")
    /\ Count("test") <= 1
    /\ polls <= 10
    /\ (pc \in {"finish", "done"} /\ Invoked("test") /\ ~seen)
            => "# ERROR: test failed, marker not replicated." \in Range(stdout)
    /\ (pc = "done" /\ Invoked("test"))
            => (raised = NoError /\ stdout[Len(stdout)] = "# ...done.")

C7_Witness ==
    /\ Completed
    /\ Invoked("test")
    /\ ~seen
    /\ polls = 10
    /\ stdout[Len(stdout)] = "# ...done."

Surfaced(f) == f \in Range(stdout) \/ f = raised

\* C8: every finding a check returned is surfaced: printed, or carried by the
\* error the call raises.
C8_AllFindingsSurfaced ==
    \A i \in 1..Len(report) : \A f \in Range(report[i].findings) : Surfaced(f)

\* C9: at every exit of the call the two connections are released.
C9_ConnectionsReleased == pc = "done" => conns = {}

\* C10: a second call that differs from the first in the verbosity alone, the
\* servers answering the same, invokes the same operations in the same order,
\* obtains the same findings and ends the same way.
C10_VerbosityOnlyReporting ==
    run = "second" =>
        /\ IsPrefix(calls, prev.calls)
        /\ IsPrefix(report, prev.report)
        /\ pc = "done" =>
                (calls = prev.calls /\ report = prev.report /\ raised = prev.raised)

C10_Witness ==
    /\ run = "second"
    /\ Completed
    /\ Invoked("test")
    /\ "# Checking storage engines..." \in Range(stdout)
    /\ \E i \in 1..Len(report) : report[i].findings # <<>>

\* Two dictionaries hold the same keys and the same value of the same type.
SameDict(a, b) == a.keys = b.keys /\ ToString(a.verbosity) = ToString(b.verbosity)

\* C20: no step of a call changes the caller's options dictionary; the copy
\* handed to Replication has its verbosity entry set to the boolean
\* verbosity > 0; check_innodb_compatibility and check_storage_engines are
\* handed the caller's dictionary, with the verbosity as the caller gave it.
C20_OptionsUntouched ==
    /\ [][pc # "done" => SameDict(options', options)]_vars
    /\ []((pc # "start" /\ answers.connect = "ok") =>
            /\ rpl_options.keys = options.keys \cup {"verbosity"}
            /\ rpl_options.verbosity \in BOOLEAN
            /\ rpl_options.verbosity = (dict_get(options, "verbosity", 0) > 0))
    /\ [](/\ Len(passed) = Count("check_innodb_compatibility")
                                + Count("check_storage_engines")
          /\ \A i \in 1..Len(passed) : SameDict(passed[i], options))

C20_Witness ==
    /\ Completed
    /\ Len(passed) = 2
    /\ "verbosity" \in options.keys
    /\ options.verbosity = 1
    /\ rpl_options.verbosity = TRUE

(* the skip tool *)

SkInvoked(name) == \E i \in 1..Len(sk_calls) : sk_calls[i] = name

SkCount(name) == Cardinality({i \in 1..Len(sk_calls) : sk_calls[i] = name})

\* C11: connection parsing and the skip operation are only ever reached after
\* the GTID-set format check has run on a well-formed set; with a malformed set
\* neither is invoked, no subordinate's executed set changes, and the run ends
\* with a parser error.
C11_FormatCheckedFirst ==
    /\ \A i \in 1..Len(sk_calls) :
            sk_calls[i] \in {"parse_topology_connections", "skip_subordinates_trx"}
                => /\ \E j \in 1..(i - 1) : sk_calls[j] = "check_gtid_set_format"
                   /\ gtid_wellformed(opt.gtid_set)
    /\ ~gtid_wellformed(opt.gtid_set)
            => /\ ~SkInvoked("parse_topology_connections")
               /\ ~SkInvoked("skip_subordinates_trx")
               /\ executed = executed0
               /\ sk_pc = "exit" => exit_code = PARSER_ERROR_EXIT /\ sk_stderr # <<>>

C11_Witness ==
    /\ sk_pc = "exit"
    /\ opt.gtid_set.kind = "text"
    /\ opt.gtid_set.u1 = <<<<1, 2>>, <<2, 3>>>>
    /\ opt.subordinates = "s1,s2"
    /\ SkInvoked("check_gtid_set_format")
    /\ exited

\* C12: for every subordinate the engine has handled, the reported toSkip is
\* well formed and holds exactly the requested GTIDs the subordinate had not
\* executed (so it is disjoint from the executed set and covers the request
\* together with it); nothing outside toSkip is ever injected; an empty toSkip
\* is reported as "nothing to skip" and by itself ends the run with status 0;
\* once a subordinate is skipped, the same request leaves nothing to skip.
C12_ToSkipIsDifference ==
    /\ \A i \in 1..Len(sk_report) :
        LET r == sk_report[i]
            t == Members(r.toSkip)
            e == Members(executed0[r.sub])
            q == Members(request_of(opt.gtid_set))
        IN /\ WellFormedRanges(r.toSkip.u1) /\ WellFormedRanges(r.toSkip.u2)
           /\ t \cap e = {}
           /\ q \subseteq t \cup e
           /\ t \subseteq q
           /\ Members(executed[r.sub]) \ e \subseteq t
           /\ (t = {}) <=> (r.status = "nothing to skip")
           /\ r.status \in {"skipped", "nothing to skip"}
                => gtid_subtract(request_of(opt.gtid_set), executed[r.sub]) = EmptyGtidSet
    /\ (/\ sk_pc = "exit"
        /\ SkInvoked("skip_subordinates_trx")
        /\ Len(sk_report) = Len(subordinates_val)
        /\ \A i \in 1..Len(sk_report) : sk_report[i].status = "nothing to skip")
            => exit_code = 0 /\ sk_stderr = <<>>

C12_Witness ==
    /\ sk_pc = "exit"
    /\ Len(sk_report) = 2
    /\ sk_report[1].sub = "s1"
    /\ executed0["s1"].u1 = <<<<2, 2>>>>
    /\ sk_report[1].toSkip.u1 = <<<<1, 1>>, <<3, 3>>>>
    /\ sk_report[1].status = "skipped"
    /\ sk_report[2].status = "nothing to skip"

\* C13: the dry_run option the skip operation receives is the --dryrun flag of
\* the command line; in a run with that flag no subordinate's executed set
\* ever differs from what it was before the run, while what would be skipped
\* is still computed and reported.
C13_DryRunInjectsNothing ==
    /\ SkInvoked("skip_subordinates_trx") => sk_options.dry_run = opt.dry_run
    /\ opt.dry_run =>
        /\ executed = executed0
        /\ \A i \in 1..Len(sk_report) :
            /\ sk_report[i].status \in {"would skip", "nothing to skip"}
            /\ sk_report[i].toSkip
                    = gtid_subtract(request_of(opt.gtid_set), executed0[sk_report[i].sub])

C13_Witness ==
    /\ sk_pc = "exit"
    /\ opt.dry_run
    /\ Len(sk_report) = 2
    /\ sk_report[1].status = "would skip"
    /\ sk_report[2].status = "would skip"
    /\ sk_report[1].toSkip.u1 = <<<<2, 3>>>>
    /\ executed0["s1"].u1 = <<<<1, 1>>>>

\* C14: a finished run has exit status 0 exactly when the skip operation was
\* invoked and raised nothing, every subordinate then having been reported; a
\* run that ends with any other status has written to standard error; a run
\* whose subordinate connections do not parse never invokes the skip operation
\* and ends with a non-zero status.
C14_ExitStatus ==
    /\ exited =>
        /\ (exit_code = 0) <=> (SkInvoked("skip_subordinates_trx") /\ sk_raised = NoError)
        /\ exit_code = 0 => Len(sk_report) = Len(subordinates_val) /\ ~PartiallySkipped
        /\ exit_code # 0 => sk_stderr # <<>>
    /\ (SkInvoked("parse_topology_connections") /\ parse_fails(opt.subordinates))
            => /\ ~SkInvoked("skip_subordinates_trx")
               /\ exited
               /\ exit_code # 0

C14_Witness ==
    /\ exited
    /\ SkInvoked("skip_subordinates_trx")
    /\ sk_raised = "UtilError"
    /\ Len(sk_report) = 2
    /\ sk_report[1].status = "partially skipped"
    /\ sk_report[2].status = "skipped"
    /\ exit_code = EXIT_ERROR
    /\ sk_stderr = <<"ERROR: skip failed">>

\* C19: the skip operation is invoked at most once, and only in a run where
\* --gtid-set and --subordinates are both non-empty, the format check has
\* passed and the connections have parsed, these three calls being made in
\* that order; a run where either option is absent or empty ends in a parser
\* error with neither connection parsing nor the skip operation invoked.
C19_SkipOnlyWhenReady ==
    /\ SkCount("skip_subordinates_trx") <= 1
    /\ SkInvoked("skip_subordinates_trx") =>
        /\ opt.gtid_set.kind = "text"
        /\ opt.subordinates \notin {None, ""}
        /\ gtid_wellformed(opt.gtid_set)
        /\ ~parse_fails(opt.subordinates)
        /\ sk_calls = <<"check_gtid_set_format", "parse_topology_connections",
                        "skip_subordinates_trx">>
    /\ (opt.gtid_set.kind # "text" \/ opt.subordinates \in {None, ""}) =>
        /\ sk_calls = <<>>
        /\ sk_pc \in {"required", "exit"}
        /\ sk_pc = "exit" => exited /\ exit_code = PARSER_ERROR_EXIT /\ Len(sk_stderr) = 1

C19_Witness ==
    /\ sk_pc = "exit"
    /\ opt.gtid_set.kind = "text"
    /\ gtid_wellformed(opt.gtid_set)
    /\ opt.subordinates = ""
    /\ exit_code = PARSER_ERROR_EXIT
    /\ sk_stderr = <<"error: option --subordinates is required">>

(* start_ms_replication *)

MsCount(c, op) == Cardinality({i \in 1..Len(ms_calls[c]) : ms_calls[c][i] = op})

Verbs == {"start", "stop", "restart"}

\* C15: a caller that gave no lifecycle verb invokes start without detaching
\* and stays in it while the daemon is up; an interruption reaching it there
\* makes it invoke stop_replication, once, which takes the daemon out of
\* starting or running, and the call then ends without the interruption as its
\* error; without an interruption stop_replication is not invoked.  A caller
\* that gave 'start' invokes the detaching start and nothing else.
C15_ForegroundInterrupt ==
    /\ [](\A c \in Callers :
            /\ (daemon[c] \notin Verbs /\ ms_pc[c] # "call") =>
                /\ ms_calls[c][1] = FOREGROUND
                /\ MsCount(c, FOREGROUND) = 1
                /\ MsCount(c, "stop_replication") = (IF ms_pc[c] \in {"in_handler", "done"}
                                                        /\ interrupted[c] THEN 1 ELSE 0)
                /\ Len(ms_calls[c]) = 1 + MsCount(c, "stop_replication")
                /\ ms_raised[c] # "KeyboardInterrupt"
                /\ (ms_pc[c] = "done" /\ interrupted[c]) => ms_raised[c] = NoError
            /\ (daemon[c] = "start" /\ ms_pc[c] # "call") => ms_calls[c] = <<"start">>)
    /\ [][\A c \in Callers :
            /\ (daemon[c] \notin Verbs /\ ms_pc[c] = "in_op" /\ ms_pc'[c] = "done")
                    => dstate \notin {"starting", "running"}
            /\ MsCount(c, "stop_replication")' > MsCount(c, "stop_replication")
                    => dstate' \notin {"starting", "running"}]_all_vars

C15_Witness ==
    /\ daemon["c1"] = None
    /\ ms_pc["c1"] = "done"
    /\ interrupted["c1"]
    /\ ms_calls["c1"] = <<FOREGROUND, "stop_replication">>
    /\ ms_raised["c1"] = NoError
    /\ dstate = "stopped"
    /\ daemon["c2"] = "start"
    /\ ms_pc["c2"] = "done"
    /\ ms_calls["c2"] = <<"start">>
    /\ ms_raised["c2"] = NoError

Expected(d) == IF d \in Verbs THEN d ELSE FOREGROUND

\* C18: a call invokes exactly one lifecycle operation, the one that goes with
\* the value of the daemon option ('start', 'stop', 'restart' each their own,
\* anything else and an absent option the foreground start); stop_replication
\* is invoked only by a foreground caller an interruption has reached; an
\* interruption reaching a caller on one of the three verb paths ends its call
\* as KeyboardInterrupt with nothing further invoked.
C18_OneLifecycleOperation ==
    \A c \in Callers :
        /\ ms_pc[c] = "call" => ms_calls[c] = <<>>
        /\ ms_pc[c] # "call" =>
            /\ ms_calls[c][1] = Expected(daemon[c])
            /\ Cardinality({i \in 1..Len(ms_calls[c]) :
                                ms_calls[c][i] # "stop_replication"}) = 1
            /\ MsCount(c, "stop_replication") > 0
                    => daemon[c] \notin Verbs /\ interrupted[c]
            /\ (daemon[c] \in Verbs /\ interrupted[c])
                    => /\ ms_raised[c] = "KeyboardInterrupt"
                       /\ ms_pc[c] = "done"
                       /\ ms_calls[c] = <<daemon[c]>>

C18_Witness ==
    /\ daemon["c1"] = "stop"
    /\ interrupted["c1"]
    /\ ms_raised["c1"] = "KeyboardInterrupt"
    /\ ms_calls["c1"] = <<"stop">>
    /\ daemon["c2"] = "restart"
    /\ ms_pc["c2"] = "done"
    /\ ms_calls["c2"] = <<"restart">>
    /\ ms_raised["c2"] = NoError
    /\ dstate = "running"

StopPaths == {<<s, "stopping", "stopped">> : s \in {"starting", "running"}}

StartPaths == {<<s, "starting", t>> : s \in {"stopped", "failed"}, t \in {"running", "failed"}}

\* a stop, then a start from where the stop ended; or just the start if down
RestartPaths ==
    {p \o Tail(q) : p \in {<<"running", "stopping", "stopped">>},
                    q \in {r \in StartPaths : r[1] = "stopped"}}
        \cup StartPaths

PathsOf(verb) ==
    IF verb = "start" THEN StartPaths
    ELSE IF verb = "stop" THEN StopPaths
    ELSE RestartPaths

InError(m) == channels[m] \in {"ConnectionError", "exhausted"}

====
